---- MODULE Spec2Model ----
(***************************************************************************)
(* AllNovel extension (allnovel.js), in its two forms: the class based     *)
(* DefaultExtension (impl = "cls", fetch/DOMParser) and the top-level      *)
(* functions (impl = "fn", Client/Document).                               *)
(*                                                                         *)
(* Strings are sequences of one-character strings, URLs are sequences of   *)
(* URL tokens ("https:", "//", host, "/", path segment), so that trimming, *)
(* lower-casing, substring search and URL resolution are computed.         *)
(* An operation is a call that runs from one await to the next: an action  *)
(* is the resumption of the handler with the outcome of the pending fetch, *)
(* run up to the next fetch or to the return/throw.                        *)
(***************************************************************************)
EXTENDS Naturals, Sequences, FiniteSets

VARIABLES
    pc,        \* "idle" | "fetch" (awaiting a candidate fetch) | "toc" (awaiting the tier-2 fetch) | "done"
    impl,      \* "cls" | "fn": which of the two implementations is called
    op,        \* the operation called
    args,      \* its arguments: [page, query, url]
    idx,       \* listing loop: index of the candidate whose fetch is pending
    doc,       \* listing loop: <<>> (doc = null) or <<d>>; the class keeps it across
               \* the candidates, the functions keep the document they return from;
               \* search: the document it fetched
    docFrom,   \* history: index of the candidate doc was parsed from (0: none)
    fetched,   \* history: the fetches issued by this call, in order
    loc,       \* getDetail: its locals at the tier-2 fetch (url, status, chapters), and
               \* history: the chapter anchors of the detail page (chap)
    ret,       \* the outcome of the call
    statusText, \* mapStatusToInt: the text it is applied to
    statusOut,  \* mapStatusToInt: <<>> or <<its result>>
    arg,        \* toAbsolute / fixImageUrl / cleanHtmlContent: the value it is applied to
    result      \* ... and the values returned by its successive applications

vars == <<pc, impl, op, args, idx, doc, docFrom, fetched, loc, ret, statusText, statusOut, arg, result>>

(***************************************************************************)
(* Bounds of the documents the fetch collaborator may answer with.         *)
(***************************************************************************)
MaxNodes == 2      \* item containers / bare anchors in a listing document
MaxItems == 2      \* item containers in a listing document of containers only
MaxChapters == 2   \* chapter anchors in a detail or table-of-contents document
MaxMeta == 2       \* metadata list items in a detail document
MaxLinks == 1      \* other anchors in a detail document
MaxWords == 3      \* words of a status text given to the classifier
MaxPath == 2       \* path segments of a reference given to toAbsolute
MaxBlanks == 1     \* blanks before and after an image reference
MaxFragment == 2   \* top-level nodes of a fragment given to cleanHtmlContent
MaxImages == 2     \* image elements in the content of a chapter page

(***************************************************************************)
(* Strings                                                                 *)
(***************************************************************************)
NULL == <<"<null>">>                 \* JavaScript null / undefined

Falsy(s) == s = NULL \/ s = <<>>     \* !s for a string-or-null

RECURSIVE TrimLeft(_)
TrimLeft(s) == IF s # <<>> /\ Head(s) = " " THEN TrimLeft(Tail(s)) ELSE s

RECURSIVE TrimRight(_)
TrimRight(s) ==
    IF s # <<>> /\ s[Len(s)] = " " THEN TrimRight(SubSeq(s, 1, Len(s) - 1)) ELSE s

Trim(s) == TrimRight(TrimLeft(s))

\* s.replace(/\s+/g, " "): every run of blanks becomes one blank
RECURSIVE CollapseBlanks(_)
CollapseBlanks(s) ==
    IF Len(s) < 2 THEN s
    ELSE IF s[1] = " " /\ s[2] = " " THEN CollapseBlanks(Tail(s))
    ELSE <<s[1]>> \o CollapseBlanks(Tail(s))

cleanText(t) == IF Falsy(t) THEN NULL ELSE Trim(CollapseBlanks(t))

LowerOf ==
    [c \in {"A", "B", "C", "D", "E", "F", "G", "H", "I", "J", "K", "L", "M", "N", "O", "P", "Q", "R", "S", "T", "U", "V", "W", "X", "Y", "Z"} |->
        CASE c = "A" -> "a"
          [] c = "B" -> "b"
          [] c = "C" -> "c"
          [] c = "D" -> "d"
          [] c = "E" -> "e"
          [] c = "F" -> "f"
          [] c = "G" -> "g"
          [] c = "H" -> "h"
          [] c = "I" -> "i"
          [] c = "J" -> "j"
          [] c = "K" -> "k"
          [] c = "L" -> "l"
          [] c = "M" -> "m"
          [] c = "N" -> "n"
          [] c = "O" -> "o"
          [] c = "P" -> "p"
          [] c = "Q" -> "q"
          [] c = "R" -> "r"
          [] c = "S" -> "s"
          [] c = "T" -> "t"
          [] c = "U" -> "u"
          [] c = "V" -> "v"
          [] c = "W" -> "w"
          [] c = "X" -> "x"
          [] c = "Y" -> "y"
          [] c = "Z" -> "z"]

LowerChar(c) == IF c \in DOMAIN LowerOf THEN LowerOf[c] ELSE c

toLowerCase(s) == [i \in 1..Len(s) |-> LowerChar(s[i])]

\* s.includes(sub)
includes(s, sub) ==
    \E i \in 0..(Len(s) - Len(sub)) : SubSeq(s, i + 1, i + Len(sub)) = sub

SeqsUpTo(S, n) == UNION {[1..k -> S] : k \in 0..n}

(***************************************************************************)
(* Status classifier                                                       *)
(***************************************************************************)
mapStatusToInt(statusText_) ==
    IF Falsy(statusText_) THEN 5
    ELSE LET s == toLowerCase(statusText_)
         IN  IF includes(s, <<"o", "n", "g", "o", "i", "n", "g">>) \/ includes(s, <<"u", "p", "d", "a", "t", "i", "n", "g">>) \/ includes(s, <<"s", "e", "r", "i", "a", "l">>) THEN 0
             ELSE IF includes(s, <<"c", "o", "m", "p", "l", "e", "t", "e">>) \/ includes(s, <<"c", "o", "m", "p", "l", "e", "t", "e", "d">>) \/ includes(s, <<"f", "i", "n", "i", "s", "h", "e", "d">>) THEN 1
             ELSE IF includes(s, <<"h", "i", "a", "t", "u", "s">>) THEN 2
             ELSE IF includes(s, <<"c", "a", "n", "c", "e", "l", "e", "d">>) \/ includes(s, <<"c", "a", "n", "c", "e", "l", "l", "e", "d">>) THEN 3
             ELSE IF includes(s, <<"p", "u", "b", "l", "i", "s", "h", "i", "n", "g", "f", "i", "n", "i", "s", "h", "e", "d">>) \/ includes(s, <<"p", "u", "b", "l", "i", "s", "h", "i", "n", "g", " ", "f", "i", "n", "i", "s", "h", "e", "d">>) THEN 4
             ELSE 5

\* The words status texts are made of
StatusWords ==
    { <<"C", "u", "r", "r", "e", "n", "t", "l", "y", " ">>, <<"O", "n", "g", "o", "i", "n", "g">>, <<"u", "p", "d", "a", "t", "i", "n", "g">>, <<"S", "E", "R", "I", "A", "L">>, <<"C", "o", "m", "p", "l", "e", "t", "e", "d", "!">>, <<"f", "i", "n", "i", "s", "h", "e", "d">>,
      <<"O", "n", " ", "H", "i", "a", "t", "u", "s">>, <<"C", "a", "n", "c", "e", "l">>, <<"l", "e", "d">>, <<"e", "d">>, <<"P", "u", "b", "l", "i", "s", "h", "i", "n", "g", " ">>, <<"P", "u", "b", "l", "i", "s", "h", "i", "n", "g">>, <<"D", "r", "o", "p", "p", "e", "d">> }

RECURSIVE Concat(_)
Concat(ws) == IF ws = <<>> THEN <<>> ELSE Head(ws) \o Concat(Tail(ws))

\* null, the empty text and every text of up to MaxWords words
StatusTexts == {NULL} \cup {Concat(ws) : ws \in SeqsUpTo(StatusWords, MaxWords)}

(***************************************************************************)
(* URLs                                                                    *)
(***************************************************************************)
BASE == <<"https:", "//", "allnovel.org">>

Schemes == {"https:", "http:"}

\* The URL parser drops the blanks before and after the reference
UrlStrip(u) == Trim(u)

\* new URL(url, BASE) throws: an absolute or scheme-relative reference with no host
UrlThrows(u) ==
    LET s == UrlStrip(u)
    IN  /\ s # <<>>
        /\ \/ Head(s) \in Schemes /\ (Len(s) < 3 \/ s[2] # "//")
           \/ Head(s) = "//" /\ Len(s) < 2

\* the path tokens are pairs "/" segment: "." is dropped, ".." drops the pair
\* before it; a dot segment at the end leaves the "/" of an empty last segment
RECURSIVE RemoveDotSegments(_, _)
RemoveDotSegments(rest, out) ==
    IF Len(rest) < 2 THEN out \o rest
    ELSE LET more == SubSeq(rest, 3, Len(rest))
             popped == IF Len(out) < 2 THEN <<>> ELSE SubSeq(out, 1, Len(out) - 2)
         IN  IF rest[2] = "."
             THEN IF more = <<>> THEN out \o <<"/">> ELSE RemoveDotSegments(more, out)
             ELSE IF rest[2] = ".."
             THEN IF more = <<>> THEN popped \o <<"/">> ELSE RemoveDotSegments(more, popped)
             ELSE RemoveDotSegments(more, out \o SubSeq(rest, 1, 2))

\* the serialisation of a parsed URL (scheme, "//", host, path): the dot
\* segments of the path are resolved and an empty path is "/"
UrlSerialize(abs) ==
    LET origin == SubSeq(abs, 1, 3)
        path == SubSeq(abs, 4, Len(abs))
        norm == IF \E i \in DOMAIN path : path[i] \in {".", ".."}
                THEN RemoveDotSegments(path, <<>>) ELSE path
    IN  IF norm = <<>> THEN origin \o <<"/">> ELSE origin \o norm

\* a resolver that returns the reference as it is
UrlResolve_Unresolved(u) == u

\* new URL(url, BASE).toString() for a reference that parses
UrlResolve(u) ==
    LET s == UrlStrip(u)
        abs == IF s = <<>> THEN BASE
               ELSE IF Head(s) \in Schemes THEN s
               ELSE IF Head(s) = "//" THEN <<"https:">> \o s
               ELSE IF Head(s) = "/" THEN BASE \o s
               ELSE BASE \o <<"/">> \o s
    IN  UrlSerialize(abs)

toAbsolute(url) ==
    IF Falsy(url) THEN NULL
    ELSE IF UrlThrows(url) THEN url
    ELSE UrlResolve(url)

(***************************************************************************)
(* Listing documents: a sequence of nodes in document order, each an item  *)
(* container ("article") holding one anchor, or a bare anchor ("a") that   *)
(* lies in no container; nav tells whether the document has a node that    *)
(* matches ".nav-previous a, a.next, .older a"; bad tells that reading the *)
(* link of the node raises an exception.                                   *)
(***************************************************************************)
ListingKinds == {"article", "a"}

ListingHrefs == {NULL, <<"/", "novel", "/", "a">>, <<"/", "book", "/", "b">>}

ListingTexts == {<<" ">>, <<"A">>}

\* A bare anchor without href is matched by no selector of the code: it is left out.
ListingNodes ==
    [kind : {"article"}, href : ListingHrefs, text : ListingTexts, bad : {FALSE}]
        \cup [kind : {"a"}, href : ListingHrefs \ {NULL}, text : ListingTexts, bad : {FALSE}]

ListingDocs == [nodes : SeqsUpTo(ListingNodes, MaxNodes), nav : BOOLEAN]

\* The outcome of a fetch: <<>> is a transport failure, <<d>> the parsed document.
ListingResponses == {<<>>} \cup {<<d>> : d \in ListingDocs}

\* Documents of item containers only: <article> with or without a link and a
\* name, an <article> whose link cannot be read, and a .post element.
ItemNodes ==
    [kind : {"article"}, href : {NULL, <<"/", "novel", "/", "a">>}, text : ListingTexts, bad : {FALSE}]
        \cup [kind : {"article"}, href : {<<"/", "novel", "/", "a">>}, text : {<<"A">>}, bad : {TRUE}]
        \cup [kind : {"post"}, href : {<<"/", "book", "/", "b">>}, text : {<<"A">>}, bad : {FALSE}]

ItemDocs == [nodes : SeqsUpTo(ItemNodes, MaxItems), nav : BOOLEAN]

ItemResponses == {<<>>} \cup {<<d>> : d \in ItemDocs}

Pages == {"1", "2"}

Queries == {<<>>, <<"q">>}

\* the filters argument of search: no filter, or a status filter
Filters == {{}, {"status=Completed"}}

\* querySelectorAll / select: the nodes of the kinds the selector list matches,
\* in document order, each with its position in the document.
SelectAll(d, sels) ==
    LET all == [i \in DOMAIN d.nodes |->
                   [kind |-> d.nodes[i].kind, href |-> d.nodes[i].href,
                    text |-> d.nodes[i].text, bad |-> d.nodes[i].bad, pos |-> i]]
        Matches(n) == n.kind \in sels
    IN  SelectSeq(all, Matches)

\* a test of the url alone
HasUrlAndName_UrlOnly(it) == ~Falsy(it.url)

\* if (url && name) list.push(...)
HasUrlAndName(it) == ~Falsy(it.url) /\ ~Falsy(it.name)

Pushed(items) == SelectSeq(items, HasUrlAndName)

\* an item loop without the try: the exception of an item leaves the loop
TryPerItem_Missing == FALSE

\* try { ... } catch (e) {} around the extraction of each item
TryPerItem == TRUE

\* the extraction of one of the nodes raises
Raises(nodes) == \E i \in DOMAIN nodes : nodes[i].bad

\* the nodes whose extraction reaches the push
Extractable(nodes) ==
    LET Reads(n) == ~n.bad
    IN  SelectSeq(nodes, Reads)

\* a detector that never sees a next page
hasNextPage_Never(d) == FALSE

\* !!(selectFirst(".nav-previous a") || selectFirst("a.next") || selectFirst(".older a"))
hasNextPage(d) == d.nav

\* a search URL with a part for the status filter
FilterPart_Status(filters) == IF filters = {} THEN <<>> ELSE <<"&status=Completed">>

\* the part of the search URL built from the filters: none
FilterPart(filters) == <<>>

(***************************************************************************)
(* DefaultExtension (class based)                                          *)
(***************************************************************************)
ClsCandidates(o, page) ==
    IF o = "getPopular"
    THEN << BASE \o <<"/", "most-popular", "/", "?paged=", page>>,
            BASE \o <<"/", "hot", "/", "?paged=", page>>,
            BASE \o <<"/", "?paged=", page>> >>
    ELSE << BASE \o <<"/", "latest", "/", "?paged=", page>>,
            BASE \o <<"/", "?paged=", page>> >>

\* doc.querySelector("article, .post, .novel-item, .entry") / ("article, .post, .entry")
ClsPlausibleSel(o) ==
    IF o = "getPopular" THEN {"article", "post", "novel-item", "entry"}
    ELSE {"article", "post", "entry"}

ClsPlausible(o, d) == Len(SelectAll(d, ClsPlausibleSel(o))) > 0

\* the item of one container: url of its anchor made absolute, name its trimmed text
ClsItem(n) == [url |-> toAbsolute(n.href), name |-> Trim(n.text), pos |-> n.pos]

ClsItems(nodes) ==
    LET ex == Extractable(nodes)
    IN  Pushed([i \in DOMAIN ex |-> ClsItem(ex[i])])

\* "Basic dedupe": the first item of each url, in order
RECURSIVE DedupeLoop(_, _, _)
DedupeLoop(list, deduped, seen) ==
    IF list = <<>> THEN deduped
    ELSE IF Head(list).url \notin seen
         THEN DedupeLoop(Tail(list), Append(deduped, Head(list)), seen \cup {Head(list).url})
         ELSE DedupeLoop(Tail(list), deduped, seen)

ClsDedupe(list) == DedupeLoop(list, <<>>, {})

\* The outcome of a call: not yet returned, thrown (the promise rejects), or the
\* value returned: a listing {list, hasMore} or, for getDetail, <<detail>>.
NoRet == [kind |-> "none", list |-> <<>>, hasMore |-> FALSE, detail |-> <<>>]

Thrown == [kind |-> "throw", list |-> <<>>, hasMore |-> FALSE, detail |-> <<>>]

Returned(list, hasMore) ==
    [kind |-> "ok", list |-> list, hasMore |-> hasMore, detail |-> <<>>]

\* getPopular / getLatestUpdates after the candidate loop
ClsListResult(o, dd) ==
    IF dd = <<>> THEN Thrown
    ELSE LET items == IF o = "getPopular"
                      THEN SelectAll(dd[1], {"post", "article", "novel-item", "entry"})
                      ELSE SelectAll(dd[1], {"article", "post", "entry"})
         IN  IF ~TryPerItem /\ Raises(items) THEN Thrown
             ELSE IF o = "getPopular"
             THEN Returned(ClsDedupe(ClsItems(items)), hasNextPage(dd[1]))
             ELSE Returned(ClsItems(items), hasNextPage(dd[1]))

\* a loop that never breaks: every candidate is fetched
ClsLoopBreak_Never(o, r) == FALSE

\* the loop's break: the fetched document passes the crude check for content
ClsLoopBreak(o, r) == r # <<>> /\ ClsPlausible(o, r[1])

\* a loop without the try: the failure of a candidate leaves the operation
ClsCatchInLoop_Missing == FALSE

\* catch (e) { /* try next candidate */ }: a failed candidate does not leave the loop
ClsCatchInLoop == TRUE

\* search: the ?s= URL when the query is not empty
ClsSearchUrl(query, page) ==
    IF query # <<>> THEN BASE \o <<"/", "?s=">> \o query \o <<"&paged=", page>>
    ELSE BASE \o <<"/", "?paged=", page>>

\* search after its fetch: the primary containers, or the looser ones when none matches
ClsSearchResult(d) ==
    LET items == SelectAll(d, {"search-results post", "archive post", "article"})
        fallback == SelectAll(d, {"post-list li", "novel-list li", "item"})
    IN  IF Len(items) > 0
        THEN IF ~TryPerItem /\ Raises(items) THEN Thrown
             ELSE Returned(ClsItems(items), hasNextPage(d))
        ELSE IF ~TryPerItem /\ Raises(fallback) THEN Thrown
             ELSE Returned(ClsItems(fallback), hasNextPage(d))

(***************************************************************************)
(* Top-level functions (Client / Document)                                 *)
(***************************************************************************)
FnCandidates(o, page) ==
    IF o = "getPopular"
    THEN << BASE \o <<"/", "most-popular", "/", "?paged=", page>>,
            BASE \o <<"/", "hot", "/", "?paged=", page>>,
            BASE \o <<"/", "?paged=", page>> >>
    ELSE << BASE \o <<"/", "latest", "/", "?paged=", page>>,
            BASE \o <<"/", "?paged=", page>> >>

ListCandidateSels ==
    <<"article", "post", "novel-item", "entry", "post-item", "list-item", "novel-list li">>

FnItem(n) == [url |-> toAbsolute(n.href), name |-> cleanText(n.text), pos |-> n.pos]

FnItems(nodes) ==
    LET ex == Extractable(nodes)
    IN  Pushed([i \in DOMAIN ex |-> FnItem(ex[i])])

\* the candidate loop of parseListFromDoc: out is filled by the first selector
\* whose nodes give at least one item
RECURSIVE FnContainerLoop(_, _)
FnContainerLoop(d, k) ==
    IF k > Len(ListCandidateSels) THEN <<>>
    ELSE LET out == FnItems(SelectAll(d, {ListCandidateSels[k]}))
         IN  IF Len(out) > 0 THEN out ELSE FnContainerLoop(d, k + 1)

\* a[href*='/novel/'], a[href*='/book/']: every anchor of the document, in or
\* out of a container, whose href holds one of the two path parts
IsNovelAnchor(n) ==
    /\ n.href # NULL
    /\ \/ includes(n.href, <<"/", "novel", "/">>)
       \/ includes(n.href, <<"/", "book", "/">>)

RECURSIVE FnAnchorLoop(_, _, _)
FnAnchorLoop(anchors, out, seen) ==
    IF anchors = <<>> THEN out
    ELSE LET it == FnItem(Head(anchors))
         IN  IF HasUrlAndName(it) /\ it.url \notin seen
             THEN FnAnchorLoop(Tail(anchors), Append(out, it), seen \cup {it.url})
             ELSE FnAnchorLoop(Tail(anchors), out, seen)

\* every anchor of the document
AllAnchors(d) == SelectAll(d, {d.nodes[i].kind : i \in DOMAIN d.nodes})

parseListFromDoc(d) ==
    LET out == FnContainerLoop(d, 1)
    IN  IF Len(out) > 0 THEN out
        ELSE FnAnchorLoop(Extractable(SelectSeq(AllAnchors(d), IsNovelAnchor)), <<>>, {})

\* without the try around each item: the candidate loop meets a node whose
\* extraction raises before it stops
RECURSIVE FnContainerRaises(_, _)
FnContainerRaises(d, k) ==
    IF k > Len(ListCandidateSels) THEN FALSE
    ELSE LET nodes == SelectAll(d, {ListCandidateSels[k]})
         IN  IF Raises(nodes) THEN TRUE
             ELSE IF Len(FnItems(nodes)) > 0 THEN FALSE
             ELSE FnContainerRaises(d, k + 1)

\* parseListFromDoc throws
parseListRaises(d) ==
    /\ ~TryPerItem
    /\ \/ FnContainerRaises(d, 1)
       \/ FnContainerLoop(d, 1) = <<>> /\ Raises(SelectSeq(AllAnchors(d), IsNovelAnchor))

\* if (list && list.length) return { list, hasNextPage }
FnLoopReturn(list) == Len(list) > 0

\* "fallback: empty list", returned after the candidate loop
FnListExhausted == Returned(<<>>, FALSE)

FnSearchUrl(query, page) == BASE \o <<"/", "?s=">> \o query \o <<"&paged=", page>>

\* search after its fetch; catch (e) returns the empty listing
FnSearchResult(r) ==
    IF r = <<>> \/ parseListRaises(r[1]) THEN Returned(<<>>, FALSE)
    ELSE Returned(parseListFromDoc(r[1]), hasNextPage(r[1]))

(***************************************************************************)
(* The calls                                                               *)
(***************************************************************************)
Impls == {"cls", "fn"}

ListingOps == {"getPopular", "getLatestUpdates"}

NoArgs == [page |-> "1", query |-> <<>>, filters |-> {}, url |-> NULL]

\* A JavaScript value that is null, a number or a string
JsNull == [t |-> "null", n |-> 0, s |-> <<>>]

JsNum(n) == [t |-> "number", n |-> n, s |-> <<>>]

JsStr(str) == [t |-> "string", n |-> 0, s |-> str]

NoLoc ==
    [url |-> NULL, status |-> JsNull, chap |-> <<>>, tier1 |-> <<>>, tier2 |-> <<>>,
     tocUrl |-> NULL, bare |-> FALSE]

Init ==
    /\ pc = "idle"
    /\ impl = "cls"
    /\ op = "none"
    /\ args = NoArgs
    /\ idx = 0
    /\ doc = <<>>
    /\ docFrom = 0
    /\ fetched = <<>>
    /\ loc = NoLoc
    /\ ret = NoRet
    /\ statusText = NULL
    /\ statusOut = <<>>
    /\ arg = NULL
    /\ result = <<>>

Candidates(i, o, page) ==
    IF i = "cls" THEN ClsCandidates(o, page) ELSE FnCandidates(o, page)

\* getPopular(page) / getLatestUpdates(page) is called: the first candidate is requested
CallListing(i, o, page) ==
    /\ pc = "idle"
    /\ pc' = "fetch"
    /\ impl' = i
    /\ op' = o
    /\ args' = [NoArgs EXCEPT !.page = page]
    /\ idx' = 1
    /\ UNCHANGED <<doc, docFrom, fetched, loc, ret, statusText, statusOut, arg, result>>

\* search(query, page, filters) is called: its one URL is requested
CallSearch(i, query, page, filters) ==
    /\ pc = "idle"
    /\ pc' = "fetch"
    /\ impl' = i
    /\ op' = "search"
    /\ args' = [NoArgs EXCEPT !.page = page, !.query = query, !.filters = filters]
    /\ idx' = 1
    /\ UNCHANGED <<doc, docFrom, fetched, loc, ret, statusText, statusOut, arg, result>>

\* a loop that forgets the document of an earlier candidate when a fetch fails
DocAfterFailure_Reset(d) == <<>>

\* catch (e) { /* try next candidate */ }: doc keeps the document parsed last
DocAfterFailure(d) == d

\* DefaultExtension.getPopular / getLatestUpdates resumes with the outcome r of
\* the fetch of candidate idx
ClsListing(r) ==
    /\ pc = "fetch" /\ impl = "cls" /\ op \in ListingOps
    /\ LET cands == ClsCandidates(op, args.page)
           brk == ClsLoopBreak(op, r)
           escapes == r = <<>> /\ ~ClsCatchInLoop
           d == IF r # <<>> THEN r ELSE DocAfterFailure(doc)
           good == r # <<>> /\ ClsPlausible(op, r[1])
       IN  /\ fetched' = Append(fetched, [url |-> cands[idx], ok |-> r # <<>>, good |-> good,
                                         nav |-> r # <<>> /\ r[1].nav])
           /\ doc' = d
           /\ docFrom' = IF r # <<>> THEN idx ELSE docFrom
           /\ IF escapes
              THEN pc' = "done" /\ ret' = Thrown /\ idx' = idx
              ELSE IF brk \/ idx = Len(cands)
              THEN pc' = "done" /\ ret' = ClsListResult(op, d) /\ idx' = idx
              ELSE pc' = "fetch" /\ ret' = ret /\ idx' = idx + 1
    /\ UNCHANGED <<impl, op, args, loc, statusText, statusOut, arg, result>>

\* DefaultExtension.search resumes with the outcome of its fetch
ClsSearch(r) ==
    /\ pc = "fetch" /\ impl = "cls" /\ op = "search"
    /\ fetched' = Append(fetched, [url |-> ClsSearchUrl(args.query, args.page) \o FilterPart(args.filters),
                                   ok |-> r # <<>>, good |-> r # <<>>])
    /\ pc' = "done"
    /\ doc' = r
    /\ docFrom' = IF r = <<>> THEN 0 ELSE 1
    /\ ret' = IF r = <<>> THEN Thrown ELSE ClsSearchResult(r[1])
    /\ UNCHANGED <<impl, op, args, idx, loc, statusText, statusOut, arg, result>>

\* getPopular / getLatestUpdates (top-level) resumes with the outcome r of the
\* fetch of candidate idx
FnListing(r) ==
    /\ pc = "fetch" /\ impl = "fn" /\ op \in ListingOps
    /\ LET cands == FnCandidates(op, args.page)
           list == IF r = <<>> \/ parseListRaises(r[1]) THEN <<>> ELSE parseListFromDoc(r[1])
           good == Len(list) > 0
       IN  /\ fetched' = Append(fetched, [url |-> cands[idx], ok |-> r # <<>>, good |-> good])
           /\ IF FnLoopReturn(list)
              THEN /\ pc' = "done" /\ ret' = Returned(list, hasNextPage(r[1])) /\ idx' = idx
                   /\ doc' = r /\ docFrom' = idx
              ELSE IF idx = Len(cands)
              THEN /\ pc' = "done" /\ ret' = FnListExhausted /\ idx' = idx
                   /\ UNCHANGED <<doc, docFrom>>
              ELSE /\ pc' = "fetch" /\ ret' = ret /\ idx' = idx + 1
                   /\ UNCHANGED <<doc, docFrom>>
    /\ UNCHANGED <<impl, op, args, loc, statusText, statusOut, arg, result>>

\* search (top-level) resumes with the outcome of its fetch
FnSearch(r) ==
    /\ pc = "fetch" /\ impl = "fn" /\ op = "search"
    /\ fetched' = Append(fetched, [url |-> FnSearchUrl(args.query, args.page) \o FilterPart(args.filters),
                                   ok |-> r # <<>>, good |-> r # <<>>])
    /\ pc' = "done"
    /\ doc' = r
    /\ docFrom' = IF r = <<>> THEN 0 ELSE 1
    /\ ret' = FnSearchResult(r)
    /\ UNCHANGED <<impl, op, args, idx, loc, statusText, statusOut, arg, result>>

Next ==
    \/ \E i \in Impls, o \in ListingOps, page \in Pages : CallListing(i, o, page)
    \/ \E i \in Impls, query \in Queries, page \in Pages, f \in Filters : CallSearch(i, query, page, f)
    \/ pc = "fetch" /\ \E r \in ListingResponses : ClsListing(r)
    \/ pc = "fetch" /\ \E r \in ListingResponses : ClsSearch(r)
    \/ pc = "fetch" /\ \E r \in ListingResponses : FnListing(r)
    \/ pc = "fetch" /\ \E r \in ListingResponses : FnSearch(r)

Spec == Init /\ [][Next]_vars

\* the same operations on the documents of item containers
NextItems ==
    \/ \E i \in Impls, o \in ListingOps, page \in Pages : CallListing(i, o, page)
    \/ \E i \in Impls, query \in Queries, page \in Pages, f \in Filters : CallSearch(i, query, page, f)
    \/ pc = "fetch" /\ \E r \in ItemResponses : ClsListing(r)
    \/ pc = "fetch" /\ \E r \in ItemResponses : ClsSearch(r)
    \/ pc = "fetch" /\ \E r \in ItemResponses : FnListing(r)
    \/ pc = "fetch" /\ \E r \in ItemResponses : FnSearch(r)

SpecItems == Init /\ [][NextItems]_vars

(***************************************************************************)
(* Properties of the listing operations                                    *)
(***************************************************************************)
NumCandidates == Len(Candidates(impl, op, args.page))

\* C1: in getPopular and getLatestUpdates the candidate URLs are fetched one at
\* a time in their listed order (the i-th fetch of a call is of the i-th
\* candidate, and the only pending fetch is of the next one), and no fetch
\* follows a candidate that succeeded (its document passed the check for
\* content / gave a non-empty list).
C1_SequentialShortCircuit ==
    op \in ListingOps =>
        /\ Len(fetched) <= NumCandidates
        /\ \A i \in 1..Len(fetched) :
              /\ fetched[i].url = Candidates(impl, op, args.page)[i]
              /\ fetched[i].good => i = Len(fetched) /\ pc = "done"
        /\ pc = "fetch" => idx = Len(fetched) + 1

\* getPopular ended after its second candidate succeeded: the third was not fetched
C1_Witness ==
    /\ op = "getPopular" /\ pc = "done"
    /\ Len(fetched) = 2 /\ fetched[2].good /\ ~fetched[1].good /\ fetched[1].ok

\* C2: in getPopular and getLatestUpdates the failed fetch of a candidate that
\* is not the last never fails the operation: the next candidate is fetched
\* (is pending or was fetched); the operation throws only when every
\* candidate has been fetched.
C2_FailureTriesNext ==
    op \in ListingOps =>
        /\ ret.kind = "throw" => Len(fetched) = NumCandidates
        /\ \A i \in 1..Len(fetched) :
              (~fetched[i].ok /\ i < NumCandidates) =>
                  \/ Len(fetched) > i
                  \/ pc = "fetch" /\ idx = i + 1 /\ ret.kind = "none"

\* getPopular returned a listing although its first candidate failed
C2_Witness ==
    /\ op = "getPopular" /\ pc = "done" /\ ret.kind = "ok"
    /\ Len(fetched) = 2 /\ ~fetched[1].ok /\ fetched[2].ok /\ Len(ret.list) > 0

\* C3: when the fetch of every candidate of getPopular / getLatestUpdates
\* fails, the call ends in a failure (throws); it does not return a listing.
C3_AllFailedThrows ==
    (/\ op \in ListingOps /\ pc = "done"
     /\ Len(fetched) = NumCandidates
     /\ \A i \in 1..Len(fetched) : ~fetched[i].ok)
        => ret.kind = "throw"

\* C4: an operation with one candidate URL (search, the primary fetch of
\* getDetail) whose fetch fails ends in a failure, not in a returned result.
C4_SingleFetchFailureThrows ==
    (/\ op \in {"search", "getDetail"} /\ Len(fetched) >= 1 /\ ~fetched[1].ok)
        => pc = "done" /\ ret.kind = "throw"

\* the items the listing extractor reads from document d before any dedupe
Extracted(i, d) ==
    IF i = "cls" THEN ClsItems(SelectAll(d, {"post", "article", "novel-item", "entry"}))
    ELSE LET out == FnContainerLoop(d, 1)
         IN  IF Len(out) > 0 THEN out
             ELSE FnItems(SelectSeq(AllAnchors(d), IsNovelAnchor))

\* C10: the list returned by getPopular has no two entries with the same
\* absolute url; of the extracted entries that share a url the first in
\* document order is the one kept, and the kept entries are in extraction order.
C10_PopularDeduplicated ==
    (op = "getPopular" /\ ret.kind = "ok" /\ doc # <<>>) =>
        /\ \A i, j \in DOMAIN ret.list :
              i < j => /\ ret.list[i].url # ret.list[j].url
                       /\ ret.list[i].pos < ret.list[j].pos
        /\ LET ex == Extracted(impl, doc[1])
           IN  \A k \in DOMAIN ex : \E i \in DOMAIN ret.list :
                   ret.list[i].url = ex[k].url /\ ret.list[i].pos <= ex[k].pos

SearchOps == ListingOps \cup {"search"}

\* a text with a character that is not a blank
HasText(t) == \E j \in DOMAIN t : t[j] # " "

\* a node with a link and a name
Complete(n) == n.href # NULL /\ HasText(n.text)

\* the positions, in the document, of the nodes the returned items come from
ReturnedPos == {ret.list[i].pos : i \in DOMAIN ret.list}

\* C11: every item search, getPopular and getLatestUpdates return has a url
\* that is neither null nor empty and a non-empty name; a container without a
\* link or without a name gives no item and no error (the call throws only
\* when no fetch succeeded), and the complete containers of the document are
\* returned all the same.
C11_ItemsHaveUrlAndName ==
    (op \in SearchOps /\ pc = "done") =>
        /\ ret.kind = "throw" => \A i \in DOMAIN fetched : ~fetched[i].ok
        /\ ret.kind = "ok" =>
              \A i \in DOMAIN ret.list :
                  /\ ret.list[i].url \notin {NULL, <<>>}
                  /\ ret.list[i].name \notin {NULL, <<>>}
        /\ (ret.kind = "ok" /\ doc # <<>>) =>
              \A k \in DOMAIN doc[1].nodes :
                  LET n == doc[1].nodes[k]
                  IN  /\ ~Complete(n) => k \notin ReturnedPos
                      /\ (n.kind = "article" /\ Complete(n) /\ ~n.bad) =>
                            \E i \in DOMAIN ret.list :
                                /\ ret.list[i].url = BASE \o n.href
                                /\ ret.list[i].pos <= k
                                /\ (op # "getPopular") => ret.list[i].pos = k

\* a listing of a document with a container without link and a complete one
C11_Witness ==
    /\ op = "getLatestUpdates" /\ pc = "done" /\ ret.kind = "ok" /\ doc # <<>>
    /\ Len(doc[1].nodes) = 2
    /\ doc[1].nodes[1].href = NULL /\ ~doc[1].nodes[1].bad
    /\ Complete(doc[1].nodes[2]) /\ doc[1].nodes[2].kind = "article" /\ ~doc[1].nodes[2].bad
    /\ Len(ret.list) = 1 /\ ret.list[1].pos = 2

C13_HasMoreOfSameDocument ==
    (op \in SearchOps /\ ret.kind = "ok") =>
        /\ doc # <<>> =>
              /\ ret.hasMore = doc[1].nav
              /\ \A i \in DOMAIN ret.list :
                    /\ ret.list[i].pos \in DOMAIN doc[1].nodes
                    /\ doc[1].nodes[ret.list[i].pos].href # NULL
                    /\ ret.list[i].url = BASE \o doc[1].nodes[ret.list[i].pos].href
        /\ doc = <<>> => ret.list = <<>> /\ ~ret.hasMore

\* getPopular returned the items and the flag of its second candidate, whose
\* document has a navigation node, after a first document that has none
C13_Witness ==
    /\ op = "getPopular" /\ pc = "done" /\ ret.kind = "ok"
    /\ Len(fetched) = 2 /\ fetched[1].ok /\ docFrom = 2
    /\ Len(ret.list) > 0 /\ ret.hasMore /\ doc[1].nav

\* C23: a class-based getPopular / getLatestUpdates call of which at least one
\* candidate fetch succeeded does not throw, and what it returns comes from
\* one document: that of the first fetch whose document passed the check for
\* content or, when none passed, that of the last fetch that succeeded, also
\* when later fetches failed. Every returned item is a node of that document
\* and hasMore is its navigation flag.
C23_ClsOneDocument ==
    (impl = "cls" /\ op \in ListingOps /\ pc = "done") =>
        LET oks == {i \in DOMAIN fetched : fetched[i].ok}
            goods == {i \in DOMAIN fetched : fetched[i].good}
            from == IF goods # {} THEN CHOOSE i \in goods : \A j \in goods : i <= j
                    ELSE CHOOSE i \in oks : \A j \in oks : j <= i
        IN  oks # {} =>
              /\ ret.kind = "ok"
              /\ docFrom = from
              /\ doc # <<>>
              /\ doc[1].nav = fetched[from].nav
              /\ ClsPlausible(op, doc[1]) = fetched[from].good
              /\ ret.hasMore = doc[1].nav
              /\ \A i \in DOMAIN ret.list :
                    /\ ret.list[i].pos \in DOMAIN doc[1].nodes
                    /\ doc[1].nodes[ret.list[i].pos].kind \in ClsPlausibleSel(op)
                    /\ ret.list[i].url = BASE \o doc[1].nodes[ret.list[i].pos].href

\* getPopular returned the flag of its first document, which did not pass the
\* check for content, after the fetches of both later candidates failed
C23_Witness ==
    /\ impl = "cls" /\ op = "getPopular" /\ pc = "done" /\ ret.kind = "ok"
    /\ Len(fetched) = 3 /\ fetched[1].ok /\ ~fetched[1].good
    /\ ~fetched[2].ok /\ ~fetched[3].ok
    /\ docFrom = 1 /\ ret.hasMore /\ Len(doc[1].nodes) > 0

\* C18: the URL search fetches and the result it returns do not depend on the
\* filters argument: for every filters value the URL is the one built from
\* the query and the page alone, and the result is the one computed from the
\* outcome of the fetch alone (what the call without filters fetches and returns).
C18_FiltersIgnored ==
    (op = "search" /\ pc = "done") =>
        /\ Len(fetched) = 1
        /\ fetched[1].url =
              IF impl = "cls" /\ args.query = <<>>
              THEN BASE \o <<"/", "?paged=", args.page>>
              ELSE BASE \o <<"/", "?s=">> \o args.query \o <<"&paged=", args.page>>
        /\ ret = IF impl = "fn" THEN FnSearchResult(doc)
                 ELSE IF doc = <<>> THEN Thrown ELSE ClsSearchResult(doc[1])

\* a search with a status filter returned a non-empty listing
C18_Witness ==
    /\ op = "search" /\ pc = "done" /\ args.filters # {} /\ args.query # <<>>
    /\ ret.kind = "ok" /\ Len(ret.list) > 0

\* the container patterns of the operation, in the order of the code
PatternsOf(i, o) ==
    IF i = "fn" THEN ListCandidateSels
    ELSE IF o = "getPopular" THEN <<"post", "article", "novel-item", "entry">>
    ELSE IF o = "getLatestUpdates" THEN <<"article", "post", "entry">>
    ELSE <<"search-results post", "archive post", "article">>

\* C19: the container patterns are tried in their order and the first pattern
\* that matches a node of the document is the only one used: every returned
\* item comes from a node of that pattern, and when the nodes of that pattern
\* give no item nothing is taken from a later pattern.
C19_FirstPatternOnly ==
    (op \in SearchOps /\ ret.kind = "ok" /\ doc # <<>>) =>
        LET pats == PatternsOf(impl, op)
            Matched(k) == \E n \in DOMAIN doc[1].nodes : doc[1].nodes[n].kind = pats[k]
            hits == {k \in DOMAIN pats : Matched(k)}
        IN  hits # {} =>
                LET first == CHOOSE k \in hits : \A h \in hits : k <= h
                IN  \A i \in DOMAIN ret.list :
                        doc[1].nodes[ret.list[i].pos].kind = pats[first]

(***************************************************************************)
(* The status classifier on its own                                        *)
(***************************************************************************)
InitStatus ==
    /\ pc = "idle"
    /\ impl = "fn"
    /\ op = "mapStatusToInt"
    /\ args = NoArgs
    /\ idx = 0
    /\ doc = <<>>
    /\ docFrom = 0
    /\ fetched = <<>>
    /\ loc = NoLoc
    /\ ret = NoRet
    /\ statusText \in StatusTexts
    /\ statusOut = <<>>
    /\ arg = NULL
    /\ result = <<>>

Classify ==
    /\ statusOut = <<>>
    /\ statusOut' = <<mapStatusToInt(statusText)>>
    /\ UNCHANGED <<pc, impl, op, args, idx, doc, docFrom, fetched, loc, ret, statusText, arg, result>>

NextStatus == Classify

SpecStatus == InitStatus /\ [][NextStatus]_vars

\* C8: the classifier is case-insensitive and substring based, first match
\* wins: "ongoing", "updating" or "serial" gives Ongoing (0); else "complete" or
\* "finished" gives Completed (1); else "hiatus" gives Hiatus (2); else any
\* text containing "cancel" gives Cancelled (3); null, empty or unmatched text
\* gives Unknown (5); "Currently Ongoing" is Ongoing, "Completed!" is
\* Completed, "On Hiatus" is Hiatus.
C8_DecisionTable ==
    statusOut # <<>> =>
        LET s == IF Falsy(statusText) THEN <<>> ELSE toLowerCase(statusText)
            Has(w) == includes(s, w)
            ongoing == Has(<<"o", "n", "g", "o", "i", "n", "g">>) \/ Has(<<"u", "p", "d", "a", "t", "i", "n", "g">>) \/ Has(<<"s", "e", "r", "i", "a", "l">>)
            completed == Has(<<"c", "o", "m", "p", "l", "e", "t", "e">>) \/ Has(<<"f", "i", "n", "i", "s", "h", "e", "d">>)
            expected == IF Falsy(statusText) THEN 5
                        ELSE IF ongoing THEN 0
                        ELSE IF completed THEN 1
                        ELSE IF Has(<<"h", "i", "a", "t", "u", "s">>) THEN 2
                        ELSE IF Has(<<"c", "a", "n", "c", "e", "l">>) THEN 3
                        ELSE 5
        IN  /\ statusOut[1] = expected
            /\ statusText = <<"C", "u", "r", "r", "e", "n", "t", "l", "y", " ", "O", "n", "g", "o", "i", "n", "g">> => statusOut[1] = 0
            /\ statusText = <<"C", "o", "m", "p", "l", "e", "t", "e", "d", "!">> => statusOut[1] = 1
            /\ statusText = <<"O", "n", " ", "H", "i", "a", "t", "u", "s">> => statusOut[1] = 2

\* C9: a status text that contains "publishing finished", in any letter case,
\* is classified as PublishingFinished (4).
C9_PublishingFinished ==
    (statusOut # <<>> /\ ~Falsy(statusText)
        /\ includes(toLowerCase(statusText), <<"p", "u", "b", "l", "i", "s", "h", "i", "n", "g", " ", "f", "i", "n", "i", "s", "h", "e", "d">>))
        => statusOut[1] = 4

(***************************************************************************)
(* Detail documents: the metadata list items (their text), the anchors the *)
(* chapter selectors match (kind: the selector), and the other anchors.    *)
(* A table-of-contents document is the sequence of the anchors that        *)
(* "a[href*='chapter'], .chapter-list a, .chapters a" matches.             *)
(***************************************************************************)
MetaTexts == { <<"S", "t", "a", "t", "u", "s", ":", " ", "O", "n", "g", "o", "i", "n", "g">>, <<"s", "t", "a", "t", "u", "s", ":", " ", " ", "O", "n", " ", "H", "i", "a", "t", "u", "s">>, <<"A", "u", "t", "h", "o", "r", ":", " ", "B", "o">> }

ChapterKinds == {"chapter-list a", "toc a"}

ChapterHrefs == {NULL, <<"/", "chapter-1">>}

ChapterTexts == {<<" ">>, <<"C", "1">>}

\* The anchors of the first selector with or without href and text, those of a
\* later selector with both.
ChapterAnchors ==
    [kind : {"chapter-list a"}, href : ChapterHrefs, text : ChapterTexts]
        \cup [kind : {"toc a"}, href : ChapterHrefs \ {NULL}, text : ChapterTexts \ {<<" ">>}]

\* An anchor without href whose text names no table of contents plays no part.
LinkAnchors ==
    [href : {NULL, <<"/", "toc">>}, text : { <<"V", "i", "e", "w", " ", "A", "l", "l">> }]
        \cup [href : {<<"/", "toc">>}, text : { <<"H", "o", "m", "e">> }]

DetailDocs ==
    [meta : SeqsUpTo(MetaTexts, MaxMeta), chap : SeqsUpTo(ChapterAnchors, MaxChapters),
     links : SeqsUpTo(LinkAnchors, MaxLinks)]

DetailResponses == {<<>>} \cup {<<d>> : d \in DetailDocs}

\* the hrefs of another origin, and one that new URL rejects
ForeignHrefs == {<<"//", "cdn.net", "/", "chapter-1">>, <<"https:", "//">>}

TocAnchors ==
    [href : ChapterHrefs, text : ChapterTexts]
        \cup [href : ForeignHrefs, text : ChapterTexts \ {<<" ">>}]

TocResponses == {<<>>} \cup {<<d>> : d \in SeqsUpTo(TocAnchors, MaxChapters)}

WorkUrls == {<<"/", "novel", "/", "a">>}

DetailOps == {"getDetail", "getChapterList"}

\* text.replace(/status[:\s]*/i, ""): the first "status", in any letter case,
\* is removed with the colons and blanks that follow it
RECURSIVE SkipColonsAndBlanks(_, _)
SkipColonsAndBlanks(s, k) ==
    IF k <= Len(s) /\ s[k] \in {":", " "} THEN SkipColonsAndBlanks(s, k + 1) ELSE k

RemoveStatusLabel(text) ==
    LET low == toLowerCase(text)
        label == <<"s", "t", "a", "t", "u", "s">>
        At(i) == SubSeq(low, i + 1, i + Len(label)) = label
        hits == {i \in 0..(Len(text) - Len(label)) : At(i)}
    IN  IF hits = {} THEN text
        ELSE LET i == CHOOSE h \in hits : \A g \in hits : h <= g
                 k == SkipColonsAndBlanks(text, i + Len(label) + 1)
             IN  SubSeq(text, 1, i) \o SubSeq(text, k, Len(text))

\* DefaultExtension.getDetail: the status of one "status" list item
ClsStatusOf(liText) ==
    LET s == toLowerCase(Trim(RemoveStatusLabel(liText)))
    IN  IF includes(s, <<"o", "n", "g", "o", "i", "n", "g">>) \/ includes(s, <<"u", "p", "d", "a", "t", "i", "n", "g">>) \/ includes(s, <<"s", "e", "r", "i", "a", "l">>)
        THEN JsStr(<<"O", "n", "g", "o", "i", "n", "g">>)
        ELSE IF includes(s, <<"c", "o", "m", "p", "l", "e", "t", "e">>) \/ includes(s, <<"c", "o", "m", "p", "l", "e", "t", "e", "d">>) \/ includes(s, <<"f", "i", "n", "i", "s", "h", "e", "d">>)
        THEN JsStr(<<"C", "o", "m", "p", "l", "e", "t", "e", "d">>)
        ELSE JsStr(Trim(RemoveStatusLabel(liText)))

\* metaNodes.forEach: status after the list items, from its value before them
RECURSIVE ClsMetaStatus(_, _)
ClsMetaStatus(metas, status) ==
    IF metas = <<>> THEN status
    ELSE LET txt == toLowerCase(Head(metas))
         IN  IF includes(txt, <<"a", "u", "t", "h", "o", "r">>) THEN ClsMetaStatus(Tail(metas), status)
             ELSE IF includes(txt, <<"s", "t", "a", "t", "u", "s">>)
             THEN ClsMetaStatus(Tail(metas), ClsStatusOf(Head(metas)))
             ELSE ClsMetaStatus(Tail(metas), status)

\* getDetail (top-level): statusInt after the list items
RECURSIVE FnMetaStatus(_, _)
FnMetaStatus(metas, statusInt) ==
    IF metas = <<>> THEN statusInt
    ELSE LET text == toLowerCase(Head(metas))
             fullText == cleanText(Head(metas))
         IN  IF includes(text, <<"a", "u", "t", "h", "o", "r">>) THEN FnMetaStatus(Tail(metas), statusInt)
             ELSE IF includes(text, <<"s", "t", "a", "t", "u", "s">>)
             THEN FnMetaStatus(Tail(metas), mapStatusToInt(fullText))
             ELSE FnMetaStatus(Tail(metas), statusInt)

ClsChapterSels ==
    <<"chapter-list a", "chapters a", "toc a", "chapter a",
      "post-content a[href*='/chapter-']", "entry-content a[href*='/chapter-']",
      "entry-content a.chapter">>

FnChapterSels ==
    <<"chapter-list a", "chapters a", "toc a", "chapter a",
      "post-content a[href*='chapter']", "entry-content a[href*='chapter']",
      "entry-content a.chapter", "table-of-content a">>

\* the anchors of kind sel, in document order, each with its position
SelectAnchors(anchors, sel) ==
    LET all == [i \in DOMAIN anchors |->
                   [kind |-> anchors[i].kind, href |-> anchors[i].href,
                    text |-> anchors[i].text, pos |-> i]]
        Matches(a) == a.kind = sel
    IN  SelectSeq(all, Matches)

ClsChapter(a) == [url |-> toAbsolute(a.href), name |-> Trim(a.text), pos |-> a.pos]

FnChapter(a) == [url |-> toAbsolute(a.href), name |-> cleanText(a.text), pos |-> a.pos]

ClsChapters(els) == Pushed([i \in DOMAIN els |-> ClsChapter(els[i])])

FnChapters(els) == Pushed([i \in DOMAIN els |-> FnChapter(els[i])])

\* tier 1: the chapters of the first selector whose anchors give at least one
RECURSIVE ClsTier1(_, _)
ClsTier1(d, k) ==
    IF k > Len(ClsChapterSels) THEN <<>>
    ELSE LET chapters == ClsChapters(SelectAnchors(d.chap, ClsChapterSels[k]))
         IN  IF Len(chapters) > 0 THEN chapters ELSE ClsTier1(d, k + 1)

RECURSIVE FnTier1(_, _)
FnTier1(d, k) ==
    IF k > Len(FnChapterSels) THEN <<>>
    ELSE LET chapters == FnChapters(SelectAnchors(d.chap, FnChapterSels[k]))
         IN  IF Len(chapters) > 0 THEN chapters ELSE FnTier1(d, k + 1)

\* the text of a link to the chapters: "table of contents", "chapters", "view all"
IsTocText(text) ==
    LET txt == toLowerCase(text)
    IN  \/ includes(txt, <<"t", "a", "b", "l", "e", " ", "o", "f", " ", "c", "o", "n", "t", "e", "n", "t", "s">>)
        \/ includes(txt, <<"c", "h", "a", "p", "t", "e", "r", "s">>)
        \/ includes(txt, <<"v", "i", "e", "w", " ", "a", "l", "l">>)

\* Array.from(...).find(...): <<>> or <<the first anchor with such a text>>
TocLink(d) ==
    LET all == [i \in 1..(Len(d.chap) + Len(d.links)) |->
                   IF i <= Len(d.chap)
                   THEN [href |-> d.chap[i].href, text |-> d.chap[i].text]
                   ELSE d.links[i - Len(d.chap)]]
        Matches(a) == IsTocText(a.text)
        hits == SelectSeq(all, Matches)
    IN  IF hits = <<>> THEN <<>> ELSE <<Head(hits)>>

\* a tier 2 that is tried whatever tier 1 found
Tier2Wanted_Always(found) == TRUE

\* if (!found) / if (!foundChapters)
Tier2Wanted(found) == ~found

\* tier 2: every anchor of the table-of-contents document with a url and a name
TocAll(d) ==
    [i \in DOMAIN d |-> [kind |-> "a", href |-> d[i].href, text |-> d[i].text, pos |-> i]]

ClsTier2(r) == IF r = <<>> THEN <<>> ELSE ClsChapters(TocAll(r[1]))

FnTier2(r) == IF r = <<>> THEN <<>> ELSE FnChapters(TocAll(r[1]))

\* a table-of-contents fetch outside any try block
TocCatch_Missing == FALSE

\* try { ... await request(tocUrl) ... } catch (e) { /* ignore */ }
TocCatch == TRUE

SyntheticName == <<"Chapter (single page)">>

\* a result whose chapter list may be empty
WithSingleChapter_Missing(chapters, url) == chapters

\* if (!chapters.length) chapters.push({ name: "Chapter (single page)", url })
WithSingleChapter(chapters, url) ==
    IF Len(chapters) = 0 THEN <<[url |-> url, name |-> SyntheticName, pos |-> 0]>>
    ELSE chapters

\* what getDetail returns, and what getChapterList returns of it
DetailReturn(o, url, status, chapters) ==
    IF o = "getDetail"
    THEN [kind |-> "ok", list |-> <<>>, hasMore |-> FALSE,
          detail |-> <<[url |-> url, status |-> status, chapters |-> chapters]>>]
    ELSE Returned(chapters, FALSE)

\* getDetail(novelUrl) / getChapterList(novelUrl) is called: the detail page is requested
CallDetail(i, o, novelUrl) ==
    /\ pc = "idle"
    /\ pc' = "fetch"
    /\ impl' = i
    /\ op' = o
    /\ args' = [NoArgs EXCEPT !.url = novelUrl]
    /\ idx' = 1
    /\ loc' = [NoLoc EXCEPT !.url = toAbsolute(novelUrl)]
    /\ UNCHANGED <<doc, docFrom, fetched, ret, statusText, statusOut, arg, result>>

\* DefaultExtension.getDetail resumes with the outcome r of the fetch of the detail page
ClsDetail(r) ==
    /\ pc = "fetch" /\ impl = "cls" /\ op \in DetailOps
    /\ fetched' = Append(fetched, [url |-> loc.url, ok |-> r # <<>>, good |-> r # <<>>])
    /\ IF r = <<>>
       THEN pc' = "done" /\ ret' = Thrown /\ loc' = loc
       ELSE LET d == r[1]
                status == ClsMetaStatus(d.meta, JsNull)
                chapters == ClsTier1(d, 1)
                found == Len(chapters) > 0
                tocLink == TocLink(d)
                l == [loc EXCEPT !.status = status, !.tier1 = chapters, !.chap = d.chap,
                                 !.bare = (d.chap = <<>> /\ \A k \in DOMAIN d.links :
                                                               ~IsTocText(d.links[k].text))]
            IN  IF Tier2Wanted(found) /\ tocLink # <<>>
                THEN /\ pc' = "toc"
                     /\ loc' = [l EXCEPT !.tocUrl = toAbsolute(tocLink[1].href)]
                     /\ ret' = ret
                ELSE /\ pc' = "done"
                     /\ loc' = l
                     /\ ret' = DetailReturn(op, loc.url, status, WithSingleChapter(chapters, loc.url))
    /\ UNCHANGED <<impl, op, args, idx, doc, docFrom, statusText, statusOut, arg, result>>

\* ... and with the outcome r of the fetch of the table of contents
ClsDetailToc(r) ==
    /\ pc = "toc" /\ impl = "cls" /\ op \in DetailOps
    /\ fetched' = Append(fetched, [url |-> loc.tocUrl, ok |-> r # <<>>, good |-> r # <<>>])
    /\ LET chapters == loc.tier1 \o ClsTier2(r)
       IN  /\ loc' = [loc EXCEPT !.tier2 = ClsTier2(r)]
           /\ ret' = IF r = <<>> /\ ~TocCatch THEN Thrown
                     ELSE DetailReturn(op, loc.url, loc.status, WithSingleChapter(chapters, loc.url))
    /\ pc' = "done"
    /\ UNCHANGED <<impl, op, args, idx, doc, docFrom, statusText, statusOut, arg, result>>

\* getDetail (top-level) resumes with the outcome r of the fetch of the detail page
FnDetail(r) ==
    /\ pc = "fetch" /\ impl = "fn" /\ op \in DetailOps
    /\ fetched' = Append(fetched, [url |-> loc.url, ok |-> r # <<>>, good |-> r # <<>>])
    /\ IF r = <<>>
       THEN pc' = "done" /\ ret' = Thrown /\ loc' = loc
       ELSE LET d == r[1]
                status == JsNum(FnMetaStatus(d.meta, 5))
                chapters == FnTier1(d, 1)
                foundChapters == Len(chapters) > 0
                tocLink == TocLink(d)
                tocUrl == IF tocLink = <<>> THEN NULL ELSE toAbsolute(tocLink[1].href)
                l == [loc EXCEPT !.status = status, !.tier1 = chapters, !.chap = d.chap,
                                 !.bare = (d.chap = <<>> /\ \A k \in DOMAIN d.links :
                                                               ~IsTocText(d.links[k].text))]
            IN  IF Tier2Wanted(foundChapters) /\ tocLink # <<>> /\ ~Falsy(tocUrl)
                THEN /\ pc' = "toc"
                     /\ loc' = [l EXCEPT !.tocUrl = tocUrl]
                     /\ ret' = ret
                ELSE /\ pc' = "done"
                     /\ loc' = l
                     /\ ret' = DetailReturn(op, loc.url, status, WithSingleChapter(chapters, loc.url))
    /\ UNCHANGED <<impl, op, args, idx, doc, docFrom, statusText, statusOut, arg, result>>

\* ... and with the outcome r of the fetch of the table of contents
FnDetailToc(r) ==
    /\ pc = "toc" /\ impl = "fn" /\ op \in DetailOps
    /\ fetched' = Append(fetched, [url |-> loc.tocUrl, ok |-> r # <<>>, good |-> r # <<>>])
    /\ LET chapters == loc.tier1 \o FnTier2(r)
       IN  /\ loc' = [loc EXCEPT !.tier2 = FnTier2(r)]
           /\ ret' = IF r = <<>> /\ ~TocCatch THEN Thrown
                     ELSE DetailReturn(op, loc.url, loc.status, WithSingleChapter(chapters, loc.url))
    /\ pc' = "done"
    /\ UNCHANGED <<impl, op, args, idx, doc, docFrom, statusText, statusOut, arg, result>>

NextDetail ==
    \/ \E i \in Impls, o \in DetailOps, u \in WorkUrls : CallDetail(i, o, u)
    \/ pc = "fetch" /\ \E r \in DetailResponses : ClsDetail(r)
    \/ pc = "toc" /\ \E r \in TocResponses : ClsDetailToc(r)
    \/ pc = "fetch" /\ \E r \in DetailResponses : FnDetail(r)
    \/ pc = "toc" /\ \E r \in TocResponses : FnDetailToc(r)

SpecDetail == Init /\ [][NextDetail]_vars

(***************************************************************************)
(* Properties of getDetail / getChapterList                                *)
(***************************************************************************)
\* the chapter list a finished call returned
ReturnedChapters == IF op = "getDetail" THEN ret.detail[1].chapters ELSE ret.list

\* C5: in getDetail the fetch of the table of contents is issued only when
\* tier 1 collected no chapter, and at most once: a call fetches the detail
\* page, then at most one more document.
C5_Tier2OnlyAfterEmptyTier1 ==
    op \in DetailOps =>
        /\ Len(fetched) <= 2
        /\ pc = "fetch" => Len(fetched) = 0
        /\ pc = "toc" => Len(fetched) = 1
        /\ (pc = "toc" \/ Len(fetched) = 2) =>
              /\ fetched[1].ok
              /\ fetched[1].url = toAbsolute(args.url)
              /\ loc.tier1 = <<>>

\* a getDetail call that fetched the table of contents and returned
C5_Witness ==
    /\ op = "getDetail" /\ pc = "done" /\ ret.kind = "ok"
    /\ Len(fetched) = 2 /\ fetched[2].ok /\ Len(loc.tier2) > 0

\* C6: the chapter list getDetail / getChapterList return is never empty; when
\* tier 1 and tier 2 both collected nothing (as for a document with no chapter
\* anchor and no link to a table of contents, where nothing more is fetched)
\* it is exactly the one synthetic chapter whose url is the resolved work URL;
\* when a tier collected a chapter the list is what the tiers collected and
\* holds no synthetic chapter.
C6_ChaptersNeverEmpty ==
    (op \in DetailOps /\ pc = "done" /\ ret.kind = "ok") =>
        LET chapters == ReturnedChapters
            synthetic == [url |-> toAbsolute(args.url), name |-> SyntheticName, pos |-> 0]
        IN  /\ Len(chapters) > 0
            /\ (loc.tier1 = <<>> /\ loc.tier2 = <<>>) => chapters = <<synthetic>>
            /\ loc.bare => chapters = <<synthetic>> /\ Len(fetched) = 1
            /\ (loc.tier1 # <<>> \/ loc.tier2 # <<>>) =>
                  /\ chapters = loc.tier1 \o loc.tier2
                  /\ \A i \in DOMAIN chapters :
                        chapters[i].name # SyntheticName /\ chapters[i].pos # 0

\* getChapterList of a page without chapter anchors and without a link to a
\* table of contents returned the synthetic chapter
C6_Witness ==
    /\ op = "getChapterList" /\ pc = "done" /\ ret.kind = "ok" /\ loc.bare
    /\ Len(ret.list) = 1 /\ ret.list[1].name = SyntheticName
    /\ ret.list[1].url = BASE \o <<"/", "novel", "/", "a">>

\* C22: a failed fetch of the table of contents never makes getDetail /
\* getChapterList fail: the call ends returning, and as no chapter had been
\* collected before (tier 1 was empty, the failed tier 2 adds nothing) the
\* result is the work's url and status with the one synthetic chapter whose
\* url is the resolved work URL.
C22_TocFailureSwallowed ==
    (op \in DetailOps /\ Len(fetched) = 2 /\ ~fetched[2].ok) =>
        /\ pc = "done" /\ ret.kind = "ok"
        /\ loc.tier2 = <<>>
        /\ loc.tier1 = <<>> =>
              ReturnedChapters =
                  <<[url |-> toAbsolute(args.url), name |-> SyntheticName, pos |-> 0]>>
        /\ op = "getDetail" =>
              /\ ret.detail[1].url = toAbsolute(args.url)
              /\ ret.detail[1].status = loc.status

\* getDetail whose table-of-contents fetch failed returned the synthetic chapter
C22_Witness ==
    /\ op = "getDetail" /\ pc = "done" /\ Len(fetched) = 2
    /\ fetched[1].ok /\ ~fetched[2].ok /\ fetched[2].url # NULL
    /\ ret.kind = "ok" /\ Len(ret.detail[1].chapters) = 1
    /\ ret.detail[1].chapters[1].name = SyntheticName
    /\ ret.detail[1].chapters[1].url = BASE \o <<"/", "novel", "/", "a">>

ClosedStatuses ==
    {JsNum(n) : n \in 0..5}
        \cup {JsStr(name) : name \in { <<"O", "n", "g", "o", "i", "n", "g">>, <<"C", "o", "m", "p", "l", "e", "t", "e", "d">>, <<"H", "i", "a", "t", "u", "s">>, <<"C", "a", "n", "c", "e", "l", "l", "e", "d">>,
                                       <<"P", "u", "b", "l", "i", "s", "h", "i", "n", "g", "F", "i", "n", "i", "s", "h", "e", "d">>, <<"U", "n", "k", "n", "o", "w", "n">> }}

\* C7: the status getDetail returns is one of the six closed values (Ongoing,
\* Completed, Hiatus, Cancelled, PublishingFinished, Unknown, or their numbers
\* 0..5), never the raw status text of the site and never null.
C7_StatusClosed ==
    (op = "getDetail" /\ pc = "done" /\ ret.kind = "ok") =>
        ret.detail[1].status \in ClosedStatuses

\* an absolute URL of the site: https://allnovel.org followed by a path
IsSiteUrl(u) == Len(u) >= 4 /\ SubSeq(u, 1, 3) = <<"https:", "//", "allnovel.org">> /\ u[4] = "/"

\* C16: every url in what getDetail and getChapterList return (the url of the
\* work, the url of each chapter) is an absolute URL of the site origin
\* https://allnovel.org, whatever hrefs the documents hold.
C16_UrlsSiteQualified ==
    (op \in DetailOps /\ pc = "done" /\ ret.kind = "ok") =>
        /\ op = "getDetail" => IsSiteUrl(ret.detail[1].url)
        /\ \A i \in DOMAIN ReturnedChapters : IsSiteUrl(ReturnedChapters[i].url)

\* C20: in tier 1 the first chapter selector, in list order, that matches an
\* anchor of the detail page is used alone: the chapters collected are exactly
\* the anchors of that selector that have a text and an href, in document
\* order, with the href resolved; no later selector gives a chapter.
C20_FirstChapterSelectorOnly ==
    (op \in DetailOps /\ pc \in {"toc", "done"} /\ fetched # <<>> /\ fetched[1].ok) =>
        LET sels == IF impl = "cls" THEN ClsChapterSels ELSE FnChapterSels
            Matched(k) == \E p \in DOMAIN loc.chap : loc.chap[p].kind = sels[k]
            hits == {k \in DOMAIN sels : Matched(k)}
        IN  IF hits = {} THEN loc.tier1 = <<>>
            ELSE LET first == CHOOSE k \in hits : \A h \in hits : k <= h
                     valid == {p \in DOMAIN loc.chap :
                                  /\ loc.chap[p].kind = sels[first]
                                  /\ loc.chap[p].href # NULL
                                  /\ HasText(loc.chap[p].text)}
                 IN  /\ {loc.tier1[i].pos : i \in DOMAIN loc.tier1} = valid
                     /\ \A i, j \in DOMAIN loc.tier1 :
                           i < j => loc.tier1[i].pos < loc.tier1[j].pos
                     /\ \A i \in DOMAIN loc.tier1 :
                           loc.tier1[i].url = BASE \o loc.chap[loc.tier1[i].pos].href

(***************************************************************************)
(* toAbsolute on its own                                                   *)
(***************************************************************************)
UrlHosts == {"allnovel.org", "cdn.net"}

UrlSegments == {"a", "b", ".", ".."}

\* the path of the segments: "/" before each
RECURSIVE PathOf(_)
PathOf(segs) == IF segs = <<>> THEN <<>> ELSE <<"/", Head(segs)>> \o PathOf(Tail(segs))

UrlPaths == {PathOf(segs) : segs \in SeqsUpTo(UrlSegments, MaxPath)}

\* an absolute or scheme-relative reference that names no host
HostlessRefs == {<<"https:", "//">>, <<"http:", "//">>, <<"//">>}

\* the references: absolute, scheme-relative, root-relative and relative ones,
\* those without a host, each with or without blanks around it; null; empty
UrlRefs ==
    LET absolute == {<<sch, "//", h>> \o path : sch \in Schemes, h \in UrlHosts, path \in UrlPaths}
        schemeRelative == {<<"//", h>> \o path : h \in UrlHosts, path \in UrlPaths}
        rootRelative == UrlPaths \ {<<>>}
        relative == {Tail(path) : path \in UrlPaths \ {<<>>}}
        bare == absolute \cup schemeRelative \cup rootRelative \cup relative \cup HostlessRefs
        Blanks == {<<>>, <<" ">>}
    IN  {NULL, <<>>} \cup {lead \o u \o trail : lead \in Blanks, u \in bare, trail \in Blanks}

InitUrl ==
    /\ pc = "idle"
    /\ impl = "fn"
    /\ op = "toAbsolute"
    /\ args = NoArgs
    /\ idx = 0
    /\ doc = <<>>
    /\ docFrom = 0
    /\ fetched = <<>>
    /\ loc = NoLoc
    /\ ret = NoRet
    /\ statusText = NULL
    /\ statusOut = <<>>
    /\ arg \in UrlRefs
    /\ result = <<>>

\* toAbsolute is applied to the reference, then to what it returned
ApplyToAbsolute ==
    /\ op = "toAbsolute"
    /\ Len(result) < 2
    /\ result' = Append(result, toAbsolute(IF result = <<>> THEN arg ELSE result[Len(result)]))
    /\ UNCHANGED <<pc, impl, op, args, idx, doc, docFrom, fetched, loc, ret, statusText, statusOut, arg>>

NextUrl == ApplyToAbsolute

SpecUrl == InitUrl /\ [][NextUrl]_vars

\* scheme, "//", host, then a path that starts with "/" and holds no blank and
\* no dot segment
IsAbsoluteUrl(u) ==
    /\ Len(u) >= 4
    /\ u[1] \in Schemes /\ u[2] = "//" /\ u[3] \in UrlHosts /\ u[4] = "/"
    /\ \A i \in DOMAIN u : u[i] \notin {" ", ".", ".."}

ClsQueryMax == 40    \* if (q.length > 40), q = u.searchParams.toString()

FnQueryMax == 80     \* if (q && q.length > 80), q = parsed.search

\* the index of the "?" of the reference, Len + 1 when it has no query
RECURSIVE QueryAt(_, _)
QueryAt(u, i) == IF i > Len(u) \/ u[i] = "?" THEN i ELSE QueryAt(u, i + 1)

BeforeQuery(u) == SubSeq(u, 1, QueryAt(u, 1) - 1)

\* parsed.search: "?" and the characters of the query, empty when there is none
SearchOf(u) == SubSeq(u, QueryAt(u, 1), Len(u))

\* new URL(url) parses: the reference is absolute and names a host
ImgParses(u) == Len(u) >= 3 /\ u[1] \in Schemes /\ u[2] = "//"

ClsFixImageUrl(rawUrl) ==
    IF Falsy(rawUrl) THEN NULL
    ELSE LET t == Trim(rawUrl)
             a == IF t # <<>> /\ Head(t) = "//" THEN <<"https:", "//">> \o Tail(t) ELSE t
             url == IF a # <<>> /\ Head(a) = "/" THEN BASE \o a ELSE a
         IN  IF ~ImgParses(url) THEN url
             ELSE LET search == SearchOf(url)
                      q == IF search = <<>> THEN <<>> ELSE Tail(search)
                  IN  IF Len(q) > ClsQueryMax THEN UrlSerialize(BeforeQuery(url))
                      ELSE UrlSerialize(BeforeQuery(url)) \o search

FnFixImageUrl(raw) ==
    IF Falsy(raw) THEN NULL
    ELSE LET t == Trim(raw)
             a == IF t # <<>> /\ Head(t) = "//" THEN <<"https:">> \o t ELSE t
             u == IF a # <<>> /\ Head(a) = "/" THEN BASE \o a ELSE a
         IN  IF ~ImgParses(u) THEN u
             ELSE LET q == SearchOf(u)
                  IN  IF q # <<>> /\ Len(q) > FnQueryMax THEN UrlSerialize(BeforeQuery(u))
                      ELSE UrlSerialize(BeforeQuery(u)) \o q

fixImageUrl(i, raw) == IF i = "cls" THEN ClsFixImageUrl(raw) ELSE FnFixImageUrl(raw)

\* the query "?k=v...v" of n characters after the "?", no query for n = 0
QueryOf(n) == IF n = 0 THEN <<>> ELSE <<"?", "k", "=">> \o [i \in 1..(n - 2) |-> "v"]

\* the lengths around the two thresholds
QueryLens == {0, ClsQueryMax, ClsQueryMax + 1, FnQueryMax - 1, FnQueryMax, FnQueryMax + 1}

\* the image references: absolute, scheme-relative, root-relative and relative,
\* with and without a query, with blanks around them; null, empty, blank
ImageRefs ==
    LET file == <<"/", "a.png">>
        bare == {<<"https:", "//", "cdn.net">>, <<"https:", "//", "cdn.net">> \o file,
                 <<"//", "cdn.net">> \o file, file, <<"a.png">>}
        Blanks == SeqsUpTo({" "}, MaxBlanks)
    IN  {NULL} \cup Blanks
            \cup {lead \o u \o QueryOf(n) \o trail :
                      lead \in Blanks, u \in bare, n \in QueryLens, trail \in Blanks}

InitImage ==
    /\ pc = "idle"
    /\ impl \in Impls
    /\ op = "fixImageUrl"
    /\ args = NoArgs
    /\ idx = 0
    /\ doc = <<>>
    /\ docFrom = 0
    /\ fetched = <<>>
    /\ loc = NoLoc
    /\ ret = NoRet
    /\ statusText = NULL
    /\ statusOut = <<>>
    /\ arg \in ImageRefs
    /\ result = <<>>

\* fixImageUrl is applied to the reference, then to what it returned
ApplyFixImageUrl ==
    /\ op = "fixImageUrl"
    /\ Len(result) < 2
    /\ result' = Append(result, fixImageUrl(impl, IF result = <<>> THEN arg ELSE result[Len(result)]))
    /\ UNCHANGED <<pc, impl, op, args, idx, doc, docFrom, fetched, loc, ret, statusText, statusOut, arg>>

NextImage == ApplyFixImageUrl

SpecImage == InitImage /\ [][NextImage]_vars

\* C15: fixImageUrl applied to what it returned returns the same value, for
\* every input string, whether its query is above the threshold (and dropped)
\* or not (and kept).
C15_FixImageUrlIdempotent ==
    (op = "fixImageUrl" /\ Len(result) = 2) => result[2] = result[1]

(***************************************************************************)
(* DefaultExtension.cleanHtmlContent on its own. A fragment is the         *)
(* sequence of its top-level elements; an element has a tag, a class, the  *)
(* names of its attributes, its own text and its child elements.           *)
(***************************************************************************)
RemovedTags == {"script", "style", "iframe", "noscript"}

AdClasses ==
    {"ads", "advert", "share", "social", "related", "related-posts", "post-navigation",
     "nav-links"}

\* a test for the lower-case "on" only
IsEventAttr_CaseSensitive(name) == Len(name) >= 2 /\ SubSeq(name, 1, 2) = <<"o", "n">>

\* /^on/i.test(attr.name)
IsEventAttr(name) == Len(name) >= 2 /\ toLowerCase(SubSeq(name, 1, 2)) = <<"o", "n">>

AttrSets ==
    { {}, {<<"o", "n", "c", "l", "i", "c", "k">>}, {<<"O", "n", "L", "o", "a", "d">>, <<"h", "r", "e", "f">>} }

\* the elements without children
LeafElements ==
    [tag : {"p"}, class : {"", "share", "shared"}, attrs : AttrSets, text : {"x"}, kids : {<<>>}]
        \cup [tag : {"p"}, class : {""}, attrs : {{}}, text : {"y"}, kids : {<<>>}]
        \cup [tag : {"script", "noscript"}, class : {""}, attrs : {{}}, text : {"x"}, kids : {<<>>}]

\* the elements with one child
WrapperElements ==
    [tag : {"div"}, class : {"", "related"}, attrs : {{}, {<<"O", "N", "L", "O", "A", "D">>}}, text : {"z"},
     kids : {<<k>> : k \in [tag : {"p", "script"}, class : {"", "ads"}, attrs : {{}}, text : {"y"},
                              kids : {<<>>}]}]

Fragments == SeqsUpTo(LeafElements \cup WrapperElements, MaxFragment)

\* doc.querySelectorAll(...).forEach((n) => n.remove()): the elements with one
\* of the tags or of the classes leave the tree with all they hold
RECURSIVE RemoveMatching(_, _, _)
RemoveMatching(nodes, tags, classes) ==
    IF nodes = <<>> THEN <<>>
    ELSE LET n == Head(nodes)
         IN  IF n.tag \in tags \/ n.class \in classes
             THEN RemoveMatching(Tail(nodes), tags, classes)
             ELSE <<[n EXCEPT !.kids = RemoveMatching(n.kids, tags, classes)]>>
                      \o RemoveMatching(Tail(nodes), tags, classes)

\* doc.querySelectorAll("*").forEach(...): the event attributes of every element are removed
RECURSIVE RemoveEventAttrs(_)
RemoveEventAttrs(nodes) ==
    [i \in DOMAIN nodes |->
        [nodes[i] EXCEPT !.attrs = {a \in nodes[i].attrs : ~IsEventAttr(a)},
                         !.kids = RemoveEventAttrs(nodes[i].kids)]]

cleanHtmlContent(rawHtml) ==
    RemoveEventAttrs(RemoveMatching(RemoveMatching(rawHtml, RemovedTags, {}), {}, AdClasses))

InitClean ==
    /\ pc = "idle"
    /\ impl = "cls"
    /\ op = "cleanHtmlContent"
    /\ args = NoArgs
    /\ idx = 0
    /\ doc = <<>>
    /\ docFrom = 0
    /\ fetched = <<>>
    /\ loc = NoLoc
    /\ ret = NoRet
    /\ statusText = NULL
    /\ statusOut = <<>>
    /\ arg \in Fragments
    /\ result = <<>>

ApplyCleanHtmlContent ==
    /\ op = "cleanHtmlContent"
    /\ result = <<>>
    /\ result' = <<cleanHtmlContent(arg)>>
    /\ UNCHANGED <<pc, impl, op, args, idx, doc, docFrom, fetched, loc, ret, statusText, statusOut, arg>>

NextClean == ApplyCleanHtmlContent

SpecClean == InitClean /\ [][NextClean]_vars

\* the elements of a fragment, at any depth
RECURSIVE Descendants(_)
Descendants(nodes) ==
    UNION {{nodes[i]} \cup Descendants(nodes[i].kids) : i \in DOMAIN nodes}

\* the texts of the elements of a fragment, in document order
RECURSIVE TextsOf(_)
TextsOf(nodes) ==
    IF nodes = <<>> THEN <<>>
    ELSE <<Head(nodes).text>> \o TextsOf(Head(nodes).kids) \o TextsOf(Tail(nodes))

\* an element the sanitizer is to remove with its subtree
ToBeRemoved(n) ==
    \/ n.tag \in {"script", "style", "iframe", "noscript"}
    \/ n.class \in {"ads", "advert", "share", "social", "related", "related-posts",
                     "post-navigation", "nav-links"}

\* the texts of the elements outside the subtrees to be removed, in document order
RECURSIVE KeptTextsOf(_)
KeptTextsOf(nodes) ==
    IF nodes = <<>> THEN <<>>
    ELSE IF ToBeRemoved(Head(nodes)) THEN KeptTextsOf(Tail(nodes))
    ELSE <<Head(nodes).text>> \o KeptTextsOf(Head(nodes).kids) \o KeptTextsOf(Tail(nodes))

\* C17: what cleanHtmlContent returns holds no script, style, iframe or noscript
\* element, no element of an ad/share/related/post-navigation class and, on
\* the elements that remain, no attribute whose name starts with "on" in any
\* letter case; the texts of the elements outside the removed subtrees are
\* those of the input, in the same order.
C17_Sanitized ==
    (op = "cleanHtmlContent" /\ result # <<>>) =>
        /\ \A n \in Descendants(result[1]) :
              /\ ~ToBeRemoved(n)
              /\ \A a \in n.attrs : ~(Len(a) >= 2 /\ a[1] \in {"o", "O"} /\ a[2] \in {"n", "N"})
        /\ TextsOf(result[1]) = KeptTextsOf(arg)

\* a fragment with a related block that holds a script, and a paragraph with
\* an OnLoad attribute, was cleaned: the paragraph alone is left, without OnLoad
C17_Witness ==
    /\ op = "cleanHtmlContent" /\ result # <<>> /\ Len(arg) = 2
    /\ arg[1].class = "related" /\ arg[1].kids[1].tag = "script"
    /\ arg[2].tag = "p" /\ arg[2].class = "shared"
    /\ arg[2].attrs = {<<"O", "n", "L", "o", "a", "d">>, <<"h", "r", "e", "f">>}
    /\ Len(result[1]) = 1 /\ result[1][1].attrs = {<<"h", "r", "e", "f">>}
    /\ result[1][1].class = "shared" /\ result[1][1].text = "x"

(***************************************************************************)
(* DefaultExtension.getChapterContent. The chapter page is the sequence of *)
(* the image elements of its content container: an element as above, with  *)
(* the values of its data-src, src and data-lazy-src attributes.           *)
(***************************************************************************)
LoadingAttr == <<"l", "o", "a", "d", "i", "n", "g">>

\* every combination of the three sources on a plain image, an image in an ad
\* block, and an image with loading and onerror attributes
ImageElements ==
    [tag : {"img"}, class : {""}, attrs : {{}}, text : {""}, kids : {<<>>},
     dataSrc : {NULL, <<"/", "d.png">>}, src : {NULL, <<"/", "s.png">>},
     lazy : {NULL, <<"//", "cdn.net", "/", "l.png">>}]
        \cup [tag : {"img"}, class : {"ads"}, attrs : {{}}, text : {""}, kids : {<<>>},
              dataSrc : {<<"/", "d.png">>}, src : {NULL}, lazy : {NULL}]
        \cup [tag : {"img"}, class : {""}, attrs : {{LoadingAttr, <<"o", "n", "e", "r", "r", "o", "r">>}},
              text : {""}, kids : {<<>>},
              dataSrc : {NULL}, src : {<<"/", "s.png">>}, lazy : {NULL}]

ContentDocs == SeqsUpTo(ImageElements, MaxImages)

ContentResponses == {<<>>} \cup {<<d>> : d \in ContentDocs}

ChapterUrls == {<<"/", "chapter-1">>, <<"/", "chapter-2">>}

\* history: each image with its position in the page
Numbered(imgs) ==
    [i \in DOMAIN imgs |->
        [tag |-> imgs[i].tag, class |-> imgs[i].class, attrs |-> imgs[i].attrs,
         text |-> imgs[i].text, kids |-> imgs[i].kids, dataSrc |-> imgs[i].dataSrc,
         src |-> imgs[i].src, lazy |-> imgs[i].lazy, pos |-> i]]

\* const src = img.getAttribute("data-src") || img.getAttribute("src")
PreferredSrc(img) == IF ~Falsy(img.dataSrc) THEN img.dataSrc ELSE img.src

\* tmpDoc.querySelectorAll("img").forEach(...)
RewriteImages(imgs) ==
    [i \in DOMAIN imgs |->
        LET img == imgs[i]
            src == PreferredSrc(img)
        IN  [img EXCEPT !.src = IF ~Falsy(src) THEN ClsFixImageUrl(toAbsolute(src)) ELSE img.src,
                        !.dataSrc = NULL,
                        !.lazy = NULL,
                        !.attrs = img.attrs \ {LoadingAttr}]]

\* getChapterContent(chapterUrl) is called: the chapter page is requested
CallContent(chapterUrl) ==
    /\ pc = "idle"
    /\ pc' = "fetch"
    /\ impl' = "cls"
    /\ op' = "getChapterContent"
    /\ args' = [NoArgs EXCEPT !.url = chapterUrl]
    /\ idx' = 1
    /\ loc' = [NoLoc EXCEPT !.url = toAbsolute(chapterUrl)]
    /\ UNCHANGED <<doc, docFrom, fetched, ret, statusText, statusOut, arg, result>>

\* getChapterContent resumes with the outcome r of the fetch of the chapter page
ClsContent(r) ==
    /\ pc = "fetch" /\ impl = "cls" /\ op = "getChapterContent"
    /\ fetched' = Append(fetched, [url |-> loc.url, ok |-> r # <<>>, good |-> r # <<>>])
    /\ pc' = "done"
    /\ doc' = r
    /\ docFrom' = IF r = <<>> THEN 0 ELSE 1
    /\ ret' = IF r = <<>> THEN Thrown
              ELSE [kind |-> "ok", list |-> <<>>, hasMore |-> FALSE,
                    detail |-> <<[data |-> RewriteImages(cleanHtmlContent(Numbered(r[1]))),
                                  url |-> loc.url]>>]
    /\ UNCHANGED <<impl, op, args, idx, loc, statusText, statusOut, arg, result>>

NextContent ==
    \/ \E u \in ChapterUrls : CallContent(u)
    \/ pc = "fetch" /\ \E r \in ContentResponses : ClsContent(r)

SpecContent == Init /\ [][NextContent]_vars

\* C21: in the content getChapterContent returns no image has a data-src or
\* data-lazy-src attribute, and every image that had a lazy-load source has as
\* its src that value (data-src before data-lazy-src), resolved and
\* normalized, whatever its eager src was.
C21_LazySourcesRewritten ==
    (op = "getChapterContent" /\ pc = "done" /\ ret.kind = "ok") =>
        \A i \in DOMAIN ret.detail[1].data :
            LET img == ret.detail[1].data[i]
                before == doc[1][img.pos]
            IN  /\ img.dataSrc = NULL /\ img.lazy = NULL
                /\ before.dataSrc = <<"/", "d.png">> => img.src = BASE \o <<"/", "d.png">>
                /\ (before.dataSrc = NULL /\ before.lazy = <<"//", "cdn.net", "/", "l.png">>) =>
                      img.src = <<"https:", "//", "cdn.net", "/", "l.png">>

====
